---- MODULE Spec2Model ----
(***************************************************************************)
(* A model of the SWE-bench harness of this repository:                    *)
(*   - the validation grader (run_validation.get_validation_report),       *)
(*   - one Job (run_validation.run_instance, run_evaluation.run_instance), *)
(*   - the Job scheduler (run_instances, run_instance_pair, main,          *)
(*     get_dataset_from_preds) of both harnesses.                          *)
(*   - the report aggregator (reporting.make_run_report),                  *)
(*   - the bulk push loop (push_images.main).                              *)
(* Ten specifications share the variables:                                 *)
(*   SpecGrade     the validation grader applied to every bounded input,   *)
(*   SpecGradeFull the grading step of run_evaluation, likewise,           *)
(*   SpecJob       run_instance called directly, again and again,          *)
(*   Spec          invocations of main: argument checks, filter,           *)
(*                 environment images, zip, pool, Jobs, collection,        *)
(*                 clean_images,                                           *)
(*   SpecReport    make_run_report applied to every bounded input,         *)
(*   SpecPush      push_images.main, round after round,                    *)
(*   SpecRuns      run_instance called under two run identifiers,          *)
(*   SpecPair      run_instance_pair called directly, again and again,     *)
(*   SpecPushLive  SpecPush with weak fairness of the loop's rounds,       *)
(*   SpecLive      Spec with weak fairness of the steps of an invocation.  *)
(***************************************************************************)
EXTENDS Integers, Sequences, FiniteSets, TLC

\* ------------------------------------------------------------------ bounds
\* instances of the dataset: 1..NumInstances, in dataset order
NumInstances == 2
\* the --max_workers argument ranges over 1..MaxWorkers
MaxWorkers == 2
\* test names a parsed log may mention: 1..MaxTests
MaxTests == 2

\* instances of the dataset push_images.main loads: 1..PushTargets
PushTargets == 10
\* local images whose push fails on every attempt: at most MaxBroken
MaxBroken == 2
\* local images whose push fails some attempts and then works: at most MaxFlaky
MaxFlaky == 2
\* rounds of the push loop followed: at most MaxRounds
MaxRounds == 4

Instances == 1..NumInstances
Tests == 1..MaxTests

VARIABLES
    harness,      \* "validation" (run_validation.py) or "evaluation" (run_evaluation.py)
    reports,      \* the report.json files on disk: report path -> content
    grade,        \* SpecGrade: the grader's input and its output
    last,         \* SpecJob: the last direct call of run_instance
    mainpc,       \* Spec: position of main / run_instances
    max_workers,  \* Spec: the --max_workers argument of the invocation
    reports0,     \* Spec: the report paths that existed when the invocation began
    tasks,        \* Spec: the futures submitted to the pool, in submission order
    plan,         \* Spec: per Job, what is left of the call of run_instance
    containers,   \* Spec: Job -> "none", "created" or "running"
    jstat,        \* Spec: Job -> "idle", "active", "skipped", "ok", "failed", "raised"
    collected,    \* Spec: tasks the as_completed loop has handled
    pbar,         \* Spec: the progress counter
    run,          \* Spec: the invocation's arguments and the docker images
    rep,          \* SpecReport: the arguments of make_run_report and what it made
    push          \* SpecPush: the state of push_images.main

vars == <<harness, reports, grade, last, mainpc, max_workers, reports0, tasks,
          plan, containers, jstat, collected, pbar, run, rep, push>>
schedVars == <<mainpc, max_workers, reports0, tasks, plan, containers,
               jstat, collected, pbar, run>>

\* the two tools at rest, for the specifications that do not run them
RepIdle == [called |-> FALSE]
PushIdle == [pc |-> "off"]

\* ---------------------------------------------------------- the grader
\* TestStatus values a log parser may give a test; Absent: not in the mapping
TestStatuses == {"PASSED", "FAILED", "SKIPPED", "ERROR"}
Absent == "ABSENT"

\* prediction["model_patch"]: the key missing, None, "" or a diff
PatchMissing == "<missing>"
PatchNone == "<None>"
PatchValues == {PatchMissing, PatchNone, "", "diff"}

\* what get_logs_eval(test_spec, log_path) gives back: (eval_sm, found)
LogResults == [found : BOOLEAN, eval_sm : [Tests -> TestStatuses \cup {Absent}]]

\* report_map[instance_id] as first filled in
InitialRecord ==
    [k \in {"patch_is_None", "patch_exists", "patch_successfully_applied", "resolved"}
        |-> FALSE]

\* d[k] = v of a Python dict, the key added when it is new
DictSet(d, k, v) == [x \in DOMAIN d \cup {k} |-> IF x = k THEN v ELSE d[x]]

PassList(eval_sm) == {t \in Tests : eval_sm[t] = "PASSED"}
FailList(eval_sm) == {t \in Tests : eval_sm[t] = "FAILED"}

\* the condition of line 103 without its second conjunct: no PASS asked for
ResolvedRuleNoPass(eval_sm) == FailList(eval_sm) = {}

\* the condition of line 103
ResolvedRule(eval_sm) ==
    Cardinality(FailList(eval_sm)) = 0 /\ Cardinality(PassList(eval_sm)) > 0

\* the test of line 93 with every log taken as usable
LogUsableAlways(log) == TRUE

\* eval_sm, found = get_logs_eval(test_spec, log_path); if not found: return
LogUsable(log) == log.found

\* get_validation_report: [raised, report_map, log_read]; log_read says whether
\* get_logs_eval was called. raised = "KeyError" when prediction["model_patch"]
\* is looked up and the key is missing.
get_validation_report(prediction, log, include_tests_status) ==
    LET instance_id == prediction.instance_id
        r0 == InitialRecord
    IN  IF prediction.model_patch = PatchMissing
        THEN [raised |-> "KeyError", report_map |-> <<>>, log_read |-> FALSE]
        ELSE IF prediction.model_patch = PatchNone
        THEN [raised |-> "none",
              report_map |-> (instance_id :> DictSet(r0, "none", TRUE)),
              log_read |-> FALSE]
        ELSE LET r1 == DictSet(r0, "patch_exists", TRUE) IN
             IF ~LogUsable(log)
             THEN [raised |-> "none", report_map |-> (instance_id :> r1),
                   log_read |-> TRUE]
             ELSE LET r2 == DictSet(r1, "patch_successfully_applied", TRUE)
                      report == [PASS |-> PassList(log.eval_sm),
                                 FAIL |-> FailList(log.eval_sm)]
                      r3 == IF ResolvedRule(log.eval_sm)
                            THEN DictSet(r2, "resolved", TRUE) ELSE r2
                      r4 == IF include_tests_status
                            THEN DictSet(r3, "tests_status", report) ELSE r3
                  IN  [raised |-> "none", report_map |-> (instance_id :> r4),
                       log_read |-> TRUE]

\* ------------------------------------------------------------ SpecGrade
Predictions ==
    [instance_id : {1}, model_name_or_path : {"gold"}, model_patch : PatchValues]

NotGraded == [raised |-> "none", report_map |-> <<>>, log_read |-> FALSE]

GradeIdle == [called |-> FALSE, prediction |-> [instance_id |-> 1,
              model_name_or_path |-> "gold", model_patch |-> ""],
              log |-> [found |-> FALSE, eval_sm |-> [t \in Tests |-> Absent]],
              include |-> FALSE, out |-> NotGraded]

SchedIdle ==
    /\ mainpc = "off"
    /\ max_workers = 1
    /\ reports0 = {}
    /\ tasks = <<>>
    /\ plan = <<>>
    /\ containers = <<>>
    /\ jstat = <<>>
    /\ collected = {}
    /\ pbar = 0
    /\ run = <<>>

InitGrade ==
    /\ harness = "validation"
    /\ reports = <<>>
    /\ last = <<>>
    /\ rep = RepIdle
    /\ push = PushIdle
    /\ SchedIdle
    /\ \E p \in Predictions, l \in LogResults, inc \in BOOLEAN :
          grade = [called |-> FALSE, prediction |-> p, log |-> l, include |-> inc,
                   out |-> NotGraded]

\* the grader is applied to the drawn input
GradeCall ==
    /\ ~grade.called
    /\ grade' = [grade EXCEPT !.called = TRUE,
                   !.out = get_validation_report(grade.prediction, grade.log,
                                                 grade.include)]
    /\ UNCHANGED <<rep, push, harness, reports, last>>
    /\ UNCHANGED schedVars

NextGrade == GradeCall

SpecGrade == InitGrade /\ [][NextGrade]_vars

\* the record the grader returned for the prediction's instance
GradedRecord == grade.out.report_map[grade.prediction.instance_id]

\* C9: under the validation policy, for a prediction whose patch exists and
\* whose evaluation log was found, resolved is true exactly when the parsed
\* mapping holds no FAILED entry and at least one PASSED entry.
C9_ResolvedIffNoFailSomePass ==
    (grade.called /\ grade.prediction.model_patch \notin {PatchMissing, PatchNone}
        /\ grade.log.found)
    => /\ grade.out.raised = "none"
       /\ GradedRecord["resolved"]
            <=> /\ \A t \in Tests : grade.log.eval_sm[t] # "FAILED"
                /\ \E t \in Tests : grade.log.eval_sm[t] = "PASSED"

\* C9 witness: a found log with a PASSED test, a SKIPPED one and no FAILED one
\* has been graded resolved.
C9_Witness ==
    /\ grade.called /\ grade.prediction.model_patch = "diff" /\ grade.log.found
    /\ \E t \in Tests : grade.log.eval_sm[t] = "PASSED"
    /\ \E t \in Tests : grade.log.eval_sm[t] = "SKIPPED"
    /\ \A t \in Tests : grade.log.eval_sm[t] # "FAILED"
    /\ GradedRecord["resolved"]

\* C10: for a prediction whose patch is null or whose patch field is missing,
\* the grader returns a record with resolved = false and patch_exists = false
\* and never reads the test output.
C10_NullOrMissingShortCircuits ==
    (grade.called /\ grade.prediction.model_patch \in {PatchMissing, PatchNone})
    => /\ grade.out.raised = "none"
       /\ ~grade.out.log_read
       /\ ~GradedRecord["resolved"]
       /\ ~GradedRecord["patch_exists"]

\* C38: in every record the validation grader returns, patch_is_None is
\* true exactly when the prediction's patch is null, resolved implies
\* patch_successfully_applied, and patch_successfully_applied implies
\* patch_exists.
C38_FlagsConsistent ==
    (grade.called /\ grade.out.raised = "none")
    => /\ GradedRecord["patch_is_None"] <=> (grade.prediction.model_patch = PatchNone)
       /\ GradedRecord["resolved"] => GradedRecord["patch_successfully_applied"]
       /\ GradedRecord["patch_successfully_applied"] => GradedRecord["patch_exists"]

\* C12: for a prediction whose patch exists and whose evaluation log is not
\* found (the patch was never shown to apply), the validation grader returns a
\* record with patch_exists = true, patch_successfully_applied = false and
\* resolved = false.
C12_UnappliedPatchShortCircuits ==
    (grade.called /\ grade.prediction.model_patch \notin {PatchMissing, PatchNone}
        /\ ~grade.log.found)
    => /\ grade.out.raised = "none"
       /\ GradedRecord["patch_exists"]
       /\ ~GradedRecord["patch_successfully_applied"]
       /\ ~GradedRecord["resolved"]

\* C12 witness: a diff whose log was not found, although the mapping read from
\* it holds a PASSED test and no FAILED one, has been graded unresolved
C12_Witness ==
    /\ grade.called /\ grade.prediction.model_patch = "diff" /\ ~grade.log.found
    /\ \E t \in Tests : grade.log.eval_sm[t] = "PASSED"
    /\ \A t \in Tests : grade.log.eval_sm[t] # "FAILED"
    /\ GradedRecord["patch_exists"]
    /\ ~GradedRecord["patch_successfully_applied"]
    /\ ~GradedRecord["resolved"]

\* ---------------------------------------------------------------- one Job
Harnesses == {"validation", "evaluation"}

\* the expected test sets of an instance (TestSpec.FAIL_TO_PASS, PASS_TO_PASS)
FAIL_TO_PASS == {1}
PASS_TO_PASS == Tests \ {1}

\* grading.get_pred_report, the full-evaluation grader run_evaluation calls:
\* resolved iff every FAIL_TO_PASS and PASS_TO_PASS test is PASSED
get_pred_report(prediction, log, include_tests_status) ==
    LET instance_id == prediction.instance_id
        r0 == InitialRecord
        expected == FAIL_TO_PASS \cup PASS_TO_PASS
    IN  IF prediction.model_patch = PatchMissing
        THEN [raised |-> "KeyError", report_map |-> <<>>, log_read |-> FALSE]
        ELSE IF prediction.model_patch = PatchNone
        THEN [raised |-> "none",
              report_map |-> (instance_id :> DictSet(r0, "none", TRUE)),
              log_read |-> FALSE]
        ELSE LET r1 == DictSet(r0, "patch_exists", TRUE) IN
             IF ~log.found
             THEN [raised |-> "none", report_map |-> (instance_id :> r1),
                   log_read |-> TRUE]
             ELSE LET r2 == DictSet(r1, "patch_successfully_applied", TRUE)
                      report == [success |-> {t \in expected : log.eval_sm[t] = "PASSED"},
                                 failure |-> {t \in expected : log.eval_sm[t] # "PASSED"}]
                      r3 == IF report.failure = {}
                            THEN DictSet(r2, "resolved", TRUE) ELSE r2
                      r4 == IF include_tests_status
                            THEN DictSet(r3, "tests_status", report) ELSE r3
                  IN  [raised |-> "none", report_map |-> (instance_id :> r4),
                       log_read |-> TRUE]

\* the one run identifier of the invocations modelled
RunId == "r1"

\* report_path: log_dir / "report.json". The validation harness puts run_id in
\* log_dir, the evaluation harness does not use its session_id there.
ReportPath(h, run_id, pred) ==
    IF h = "validation"
    THEN <<"run_validation", run_id, pred.model_name_or_path, pred.instance_id>>
    ELSE <<"run_instance", "", pred.model_name_or_path, pred.instance_id>>

\* json.dumps(report, indent=4) as written to report.json, and json.loads of
\* the text read back: the report's keys are strings and its values booleans
\* and lists of strings, which JSON gives back as they were
json_dumps(report) == <<"json", report>>
json_loads(text) == text[2]

\* report.json between open(report_path, "w"), which creates or empties the
\* file, and the end of f.write: not yet the JSON text
PartialText == <<"partial">>

\* what a reader gets that checks report_path.exists() and then calls
\* json.loads(report_path.read_text()), as lines 155-156 and make_run_report do
ReadOutcome(disk, path) ==
    IF path \notin DOMAIN disk THEN [found |-> FALSE, raised |-> "none", report |-> <<>>]
    ELSE IF disk[path] = PartialText
    THEN [found |-> TRUE, raised |-> "JSONDecodeError", report |-> <<>>]
    ELSE [found |-> TRUE, raised |-> "none", report |-> json_loads(disk[path])]

\* report_path.exists() with the idempotency check left out
ReportExistsNever(disk, path) == FALSE

\* report_path.exists()
ReportExists(disk, path) == path \in DOMAIN disk

\* operations of the container runtime (docker client, docker_utils, docker_build)
ContainerOps ==
    {"build_container", "container.start", "copy_to_container patch.diff",
     "exec git apply", "exec patch --fuzz", "exec git diff (before)",
     "copy_to_container eval.sh", "exec_run_with_timeout", "exec git diff (after)",
     "cleanup_container", "images.tag", "images.push", "remove_image"}

\* the operations of the guarded body that may raise an unexpected exception
RaisingOps ==
    {"build_container", "container.start", "copy_to_container patch.diff",
     "exec git apply", "exec git diff (before)", "exec_run_with_timeout",
     "exec git diff (after)"}

\* the logs a Job's test run may leave: every test with the same status
JobLogs == {l \in LogResults : \A t \in Tests : l.eval_sm[t] = l.eval_sm[1]
                                 /\ l.eval_sm[1] \in {"PASSED", "FAILED", Absent}
                                 /\ (~l.found => l.eval_sm[1] = Absent)}
GoodLog == [found |-> TRUE, eval_sm |-> [t \in Tests |-> "PASSED"]]

\* what the world outside answers during one Job: whether the image build
\* fails, which operation (if any) raises, the exit codes of the two patch
\* commands, whether the test run times out, whether the push works, the log.
Calm == [build |-> "ok", raises |-> "none", strict_exit |-> 0, fuzzy_exit |-> 0,
         timed_out |-> FALSE, push_ok |-> TRUE, log |-> GoodLog]
Faults ==
    {Calm, [Calm EXCEPT !.build = "BuildImageError"], [Calm EXCEPT !.timed_out = TRUE]}
    \cup {[Calm EXCEPT !.raises = op] : op \in RaisingOps}
Envs ==
    {[e EXCEPT !.strict_exit = 1, !.fuzzy_exit = x] : e \in Faults, x \in {0, 1}}
    \cup Faults
    \cup {[Calm EXCEPT !.log = l] : l \in JobLogs}
    \cup {[e EXCEPT !.push_ok = FALSE] :
            e \in {Calm, [Calm EXCEPT !.timed_out = TRUE],
                   [Calm EXCEPT !.build = "BuildImageError"]}}

\* the guarded body with the report written before the timeout is looked at
ScriptPersistEarly(h, env) ==
    <<"build_container", "container.start", "write patch.diff",
      "copy_to_container patch.diff", "exec git apply">>
    \o (IF h = "validation" /\ env.strict_exit # 0 THEN <<"exec patch --fuzz">> ELSE <<>>)
    \o <<"exec git diff (before)">>
    \o (IF h = "validation" THEN <<"write eval.sh", "copy_to_container eval.sh">> ELSE <<>>)
    \o <<"exec_run_with_timeout", "write test_output.txt", "grade",
          "open report.json", "write report.json">>
    \o (IF h = "validation" /\ env.timed_out THEN <<"write timeout marker">> ELSE <<>>)
    \o <<"exec git diff (after)">>

\* the guarded body with the first git diff taken before the patch is applied
ScriptDiffBeforeFirst(h, env) ==
    <<"build_container", "container.start", "exec git diff (before)",
      "write patch.diff", "copy_to_container patch.diff", "exec git apply">>
    \o (IF h = "validation" /\ env.strict_exit # 0 THEN <<"exec patch --fuzz">> ELSE <<>>)
    \o (IF h = "validation" THEN <<"write eval.sh", "copy_to_container eval.sh">> ELSE <<>>)
    \o <<"exec_run_with_timeout", "write test_output.txt">>
    \o (IF h = "validation" /\ env.timed_out THEN <<"write timeout marker">> ELSE <<>>)
    \o <<"exec git diff (after)", "grade", "open report.json", "write report.json">>

\* the guarded body (the try block) as the sequence of operations it performs
\* when none of them raises
Script(h, env) ==
    <<"build_container", "container.start", "write patch.diff",
      "copy_to_container patch.diff", "exec git apply">>
    \o (IF h = "validation" /\ env.strict_exit # 0 THEN <<"exec patch --fuzz">> ELSE <<>>)
    \o <<"exec git diff (before)">>
    \o (IF h = "validation" THEN <<"write eval.sh", "copy_to_container eval.sh">> ELSE <<>>)
    \o <<"exec_run_with_timeout", "write test_output.txt">>
    \o (IF h = "validation" /\ env.timed_out THEN <<"write timeout marker">> ELSE <<>>)
    \o <<"exec git diff (after)", "grade", "open report.json", "write report.json">>

\* both harnesses grading by the validation rule
GraderValidationOnly(h, pred, log) == get_validation_report(pred, log, TRUE)

\* report = get_validation_report(...) in run_validation.run_instance,
\* report = get_pred_report(...) in run_evaluation.run_instance, both with
\* include_tests_status=True
Grader(h, pred, log) ==
    IF h = "validation" THEN get_validation_report(pred, log, TRUE)
    ELSE get_pred_report(pred, log, TRUE)

\* the exception operation op raises, "none" when it returns
Raised(h, env, pred, op) ==
    IF op = "build_container" /\ env.build = "BuildImageError" THEN "BuildImageError"
    ELSE IF op = env.raises THEN "Exception"
    ELSE IF op = "write patch.diff" /\ pred.model_patch = PatchMissing THEN "Exception"
    ELSE IF op = "write patch.diff" /\ h = "evaluation" /\ pred.model_patch = PatchNone
    THEN "Exception"
    ELSE IF h = "validation" /\ op = "exec patch --fuzz" /\ env.fuzzy_exit # 0
    THEN "EvaluationError"
    ELSE IF h = "evaluation" /\ op = "exec git apply" /\ env.strict_exit # 0
    THEN "EvaluationError"
    ELSE IF h = "validation" /\ op = "write timeout marker" THEN "EvaluationError"
    ELSE IF h = "evaluation" /\ op = "exec_run_with_timeout" /\ env.timed_out
    THEN "Exception"
    ELSE IF op = "grade" /\ Grader(h, pred, env.log).raised # "none" THEN "Exception"
    ELSE "none"

\* val when the patch has been applied or given up: container.exec_run's result
\* of the strict command, assigned again from the fuzzy command when that ran
ApplyVal(h, env) ==
    IF h = "validation" /\ env.strict_exit # 0
    THEN [exit_code |-> env.fuzzy_exit, output |-> "output of patch --fuzz"]
    ELSE [exit_code |-> env.strict_exit, output |-> "output of git apply"]

\* the message of the exception the guarded body raises at op
ErrorMessage(h, env, exc, op) ==
    IF exc = "EvaluationError" /\ op \in {"exec git apply", "exec patch --fuzz"}
    THEN <<"APPLY_PATCH_FAIL", ApplyVal(h, env).output>>
    ELSE IF exc = "EvaluationError" THEN <<"Test timed out after timeout seconds.">>
    ELSE IF exc = "none" THEN <<>>
    ELSE <<"str(e)">>

SeqMin(S) == CHOOSE x \in S : \A y \in S : x <= y

\* the try block run in env: the operations performed up to and including the
\* first that raises, and the exception ("none" when the block reaches its return)
Body(h, env, pred) ==
    LET s == Script(h, env)
        bad == {i \in 1..Len(s) : Raised(h, env, pred, s[i]) # "none"}
    IN  IF bad = {} THEN [ops |-> s, exc |-> "none", msg |-> <<>>]
        ELSE [ops |-> SubSeq(s, 1, SeqMin(bad)),
              exc |-> Raised(h, env, pred, s[SeqMin(bad)]),
              msg |-> ErrorMessage(h, env, Raised(h, env, pred, s[SeqMin(bad)]),
                                   s[SeqMin(bad)])]

\* except clauses that all end in a raise, as those of run_evaluation do
HandlerReraises(h, exc) ==
    IF exc = "none" THEN [ops |-> <<>>, reraised |-> FALSE]
    ELSE [ops |-> IF exc = "EvaluationError"
                  THEN <<"logger.info">> ELSE <<"logger.error", "logger.info">>,
          reraised |-> TRUE]

\* the except clauses: what they log, and whether the exception leaves the Job
Handler(h, exc) ==
    IF exc = "none" THEN [ops |-> <<>>, reraised |-> FALSE]
    ELSE IF h = "validation"
    THEN [ops |-> IF exc \in {"EvaluationError", "BuildImageError"}
                  THEN <<"logger.info">> ELSE <<"logger.error">>,
          reraised |-> FALSE]
    ELSE [ops |-> IF exc = "EvaluationError"
                  THEN <<"logger.info">> ELSE <<"logger.error", "logger.info">>,
          reraised |-> TRUE]

\* the finally block with the push not guarded: a failed push leaves the block
FinallyPushEscapes(h, rm_image, push_image, env) ==
    <<"cleanup_container">>
    \o (IF h = "validation" /\ push_image
        THEN IF env.push_ok THEN <<"images.tag", "images.push", "logger.info">>
             ELSE <<"images.tag", "images.push">>
        ELSE <<>>)
    \o (IF h = "validation" /\ push_image /\ ~env.push_ok THEN <<>>
        ELSE (IF rm_image THEN <<"remove_image">> ELSE <<>>) \o <<"close_logger">>)

\* the finally block with the image removed before it is pushed
FinallyRemoveFirst(h, rm_image, push_image, env) ==
    <<"cleanup_container">>
    \o (IF rm_image THEN <<"remove_image">> ELSE <<>>)
    \o (IF h = "validation" /\ push_image
        THEN IF env.push_ok THEN <<"images.tag", "images.push", "logger.info">>
             ELSE <<"images.tag", "images.push", "logger.error">>
        ELSE <<>>)
    \o <<"close_logger">>

\* the finally block
Finally(h, rm_image, push_image, env) ==
    <<"cleanup_container">>
    \o (IF h = "validation" /\ push_image
        THEN IF env.push_ok THEN <<"images.tag", "images.push", "logger.info">>
             ELSE <<"images.tag", "images.push", "logger.error">>
        ELSE <<>>)
    \o (IF rm_image THEN <<"remove_image">> ELSE <<>>)
    \o <<"close_logger">>

\* run_instance(test_spec, pred, rm_image, force_rebuild, client, run_id, ...)
\* on the disk given: the operations it performs in order, ending with its
\* return or raise, what it returns, and the disk afterwards.
run_instance(h, run_id, pred, rm_image, push_image, env, disk) ==
    LET path == ReportPath(h, run_id, pred)
    IN  IF ReportExists(disk, path)
        THEN IF ReadOutcome(disk, path).raised # "none"
             THEN [ops |-> <<"mkdir log_dir", "read report.json", "raise">>,
                   exc |-> ReadOutcome(disk, path).raised, msg |-> <<"str(e)">>,
                   kind |-> "raised", report |-> <<>>, disk |-> disk]
             ELSE [ops |-> <<"mkdir log_dir", "read report.json", "return">>,
                   exc |-> "none", msg |-> <<>>, kind |-> "tuple",
                   report |-> ReadOutcome(disk, path).report,
                   disk |-> disk]
        ELSE
        LET body == Body(h, env, pred)
            handler == Handler(h, body.exc)
            written == \E i \in 1..Len(body.ops) :
                          /\ body.ops[i] = "write report.json"
                          /\ \E j \in 1..(i - 1) : body.ops[j] = "grade"
            report == IF written THEN Grader(h, pred, env.log).report_map ELSE <<>>
        IN  [ops |-> <<"mkdir log_dir", "setup_logger">> \o body.ops \o handler.ops
                     \o Finally(h, rm_image, push_image, env)
                     \o (IF handler.reraised THEN <<"raise">> ELSE <<"return">>),
             exc |-> body.exc,
             msg |-> body.msg,
             kind |-> IF handler.reraised THEN "raised"
                      ELSE IF body.exc = "none" THEN "tuple" ELSE "None",
             report |-> report,
             disk |-> IF written
                      THEN [x \in DOMAIN disk \cup {path} |->
                               IF x = path THEN json_dumps(report) ELSE disk[x]]
                      ELSE disk]

\* -------------------------------------------------------- SpecGradeFull
\* the grading step of run_evaluation.run_instance on every bounded input
InitGradeFull ==
    /\ harness = "evaluation"
    /\ reports = <<>>
    /\ last = <<>>
    /\ rep = RepIdle
    /\ push = PushIdle
    /\ SchedIdle
    /\ \E p \in Predictions, l \in LogResults :
          grade = [called |-> FALSE, prediction |-> p, log |-> l, include |-> TRUE,
                   out |-> NotGraded]

GradeFullCall ==
    /\ ~grade.called
    /\ grade' = [grade EXCEPT !.called = TRUE,
                   !.out = Grader(harness, grade.prediction, grade.log)]
    /\ UNCHANGED <<rep, push, harness, reports, last>>
    /\ UNCHANGED schedVars

NextGradeFull == GradeFullCall

SpecGradeFull == InitGradeFull /\ [][NextGradeFull]_vars

JobPreds(h) ==
    IF h = "validation"
    THEN {[instance_id |-> 1, model_name_or_path |-> "gold", model_patch |-> "diff"],
          [instance_id |-> 1, model_name_or_path |-> "empty", model_patch |-> ""]}
    ELSE {[instance_id |-> 1, model_name_or_path |-> "model", model_patch |-> "diff"],
          [instance_id |-> 1, model_name_or_path |-> "model", model_patch |-> ""]}

NoCall == [called |-> FALSE]

InitJob ==
    /\ harness \in Harnesses
    /\ reports = <<>>
    /\ grade = GradeIdle
    /\ \E pred \in JobPreds(harness) : last = [called |-> FALSE, pred |-> pred]
    /\ rep = RepIdle
    /\ push = PushIdle
    /\ SchedIdle

\* one call of run_instance, from its first line to its return or raise
JobCall ==
    \E rm_image \in BOOLEAN, push_image \in BOOLEAN, env \in Envs :
        LET pred == last.pred
            r == run_instance(harness, RunId, pred, rm_image, push_image, env, reports)
            path == ReportPath(harness, RunId, pred)
        IN  /\ reports' = r.disk
            /\ last' = [called |-> TRUE, path |-> path, pred |-> pred,
                        existed |-> path \in DOMAIN reports,
                        before |-> IF path \in DOMAIN reports THEN reports[path] ELSE <<>>,
                        rm_image |-> rm_image, push_image |-> push_image,
                        env |-> env, msg |-> r.msg,
                        ops |-> r.ops, exc |-> r.exc, kind |-> r.kind,
                        report |-> r.report]
            /\ UNCHANGED <<rep, push, harness, grade>>
            /\ UNCHANGED schedVars

NextJob == JobCall

SpecJob == InitJob /\ [][NextJob]_vars

InSeq(x, s) == \E i \in 1..Len(s) : s[i] = x
Count(s, op) == Cardinality({i \in 1..Len(s) : s[i] = op})
Index(s, op) == SeqMin({i \in 1..Len(s) : s[i] = op})

\* C1: a call of run_instance that finds the Job's report.json on disk returns
\* exactly the persisted report, leaves the file as it was and performs no
\* operation of the container runtime.
C1_ExistingOutcomeReturnedUntouched ==
    (last.called /\ last.existed)
    => /\ last.kind = "tuple"
       /\ last.report = json_loads(last.before)
       /\ reports[last.path] = last.before
       /\ \A i \in 1..Len(last.ops) : last.ops[i] \notin ContainerOps

\* C1 witness: a second call on a Job whose first call persisted a report
C1_Witness ==
    /\ last.called /\ last.existed
    /\ last.before # <<>>
    /\ last.report = json_loads(last.before)
    /\ last.report[1]["patch_exists"]

\* C2: every call that gets past the idempotency check runs cleanup_container
\* exactly once and close_logger exactly once, both before it returns or
\* raises, whatever happened in the guarded body.
C2_CleanupAndCloseExactlyOnce ==
    (last.called /\ ~last.existed)
    => /\ Count(last.ops, "cleanup_container") = 1
       /\ Count(last.ops, "close_logger") = 1
       /\ Index(last.ops, "cleanup_container") < Index(last.ops, "close_logger")
       /\ Index(last.ops, "close_logger") = Len(last.ops) - 1
       /\ last.ops[Len(last.ops)] \in {"return", "raise"}

\* C2 witness: a Job whose test run timed out, with a failing push, has cleaned
\* up and closed its logger once
C2_Witness ==
    /\ last.called /\ ~last.existed
    /\ last.exc = "EvaluationError"
    /\ Count(last.ops, "write timeout marker") = 1
    /\ Count(last.ops, "logger.error") = 1
    /\ Count(last.ops, "cleanup_container") = 1
    /\ Count(last.ops, "close_logger") = 1

\* C7: a call that fails (the image build fails, both patch commands fail, the
\* test run times out, or any other operation before the report is written
\* raises) leaves no report.json at the Job's path.
C7_FailedJobLeavesNoOutcome ==
    (last.called /\ last.exc # "none") => last.path \notin DOMAIN reports

\* C7 witness: both patch commands failed and no report is on disk
C7_Witness ==
    /\ last.called /\ last.exc = "EvaluationError"
    /\ Count(last.ops, "exec patch --fuzz") = 1
    /\ Count(last.ops, "exec_run_with_timeout") = 0
    /\ last.path \notin DOMAIN reports

\* the stage of the Job an operation belongs to, 0 for the operations that
\* belong to none (logging, the push, the removal of the image, the return)
Stage(op) ==
    IF op \in {"build_container", "container.start"} THEN 1
    ELSE IF op \in {"write patch.diff", "copy_to_container patch.diff",
                    "exec git apply", "exec patch --fuzz"} THEN 2
    ELSE IF op = "exec git diff (before)" THEN 3
    ELSE IF op \in {"write eval.sh", "copy_to_container eval.sh",
                    "exec_run_with_timeout", "write test_output.txt",
                    "write timeout marker"} THEN 4
    ELSE IF op = "exec git diff (after)" THEN 5
    ELSE IF op = "grade" THEN 6
    ELSE IF op \in {"open report.json", "write report.json"} THEN 7
    ELSE IF op = "cleanup_container" THEN 8
    ELSE 0
StagesOf(ops) == {Stage(ops[i]) : i \in 1..Len(ops)} \ {0}

\* C29: the operations of a call that runs its Job come stage after stage:
\* build and start, patch, diff before, timed test run, diff after, grade,
\* persist, cleanup. No operation of a stage comes before one of an earlier
\* stage, a stage is entered only when every stage before it was, the cleanup
\* comes once and last, and a report that is written is written before it.
C29_StagesInFixedOrder ==
    (last.called /\ ~last.existed) =>
        /\ \A i, j \in 1..Len(last.ops) :
              (i < j /\ Stage(last.ops[i]) # 0 /\ Stage(last.ops[j]) # 0)
              => Stage(last.ops[i]) <= Stage(last.ops[j])
        /\ \A i, j \in 1..Len(last.ops) :
              (i # j /\ Stage(last.ops[i]) # 0) => last.ops[i] # last.ops[j]
        /\ \A n \in StagesOf(last.ops) \ {8} : 1..n \subseteq StagesOf(last.ops)
        /\ Count(last.ops, "cleanup_container") = 1
        /\ Count(last.ops, "write report.json") = 1
              => Index(last.ops, "write report.json")
                   < Index(last.ops, "cleanup_container")

\* C29 witness: a call went through all eight stages, the fuzzy patch command
\* among them
C29_Witness ==
    /\ last.called /\ ~last.existed
    /\ StagesOf(last.ops) = 1..8
    /\ Count(last.ops, "exec patch --fuzz") = 1
    /\ last.path \in DOMAIN reports

\* C34: in the teardown of a validation Job with push_image and rm_image both
\* set, the container is cleaned up, then the image is tagged and pushed, then
\* it is removed, then the logger is closed, each once; when the push fails
\* the failure is logged between the push and the removal, the removal and
\* the closing still happen, and the call does not raise.
C34_PushThenRemoveEvenIfPushFails ==
    (last.called /\ ~last.existed /\ harness = "validation"
        /\ last.push_image /\ last.rm_image)
    => /\ \A op \in {"cleanup_container", "images.tag", "images.push",
                      "remove_image", "close_logger"} : Count(last.ops, op) = 1
       /\ Index(last.ops, "cleanup_container") < Index(last.ops, "images.tag")
       /\ Index(last.ops, "images.tag") < Index(last.ops, "images.push")
       /\ Index(last.ops, "images.push") < Index(last.ops, "remove_image")
       /\ Index(last.ops, "remove_image") < Index(last.ops, "close_logger")
       /\ ~last.env.push_ok =>
             \E n \in 1..Len(last.ops) :
                /\ last.ops[n] = "logger.error"
                /\ Index(last.ops, "images.push") < n
                /\ n < Index(last.ops, "remove_image")
       /\ last.kind # "raised"
       /\ last.ops[Len(last.ops)] = "return"

\* C34 witness: the Job wrote its report, the push in its teardown failed,
\* the image was removed and the logger closed
C34_Witness ==
    /\ last.called /\ ~last.existed /\ harness = "validation"
    /\ last.push_image /\ last.rm_image /\ ~last.env.push_ok
    /\ Count(last.ops, "write report.json") = 1
    /\ Count(last.ops, "remove_image") = 1
    /\ Count(last.ops, "close_logger") = 1

\* C11: a call of run_instance for a prediction whose patch is "" or None
\* builds no container, and the report it grades, if any, has patch_exists =
\* false and resolved = false.
C11_EmptyPatchBuildsNothing ==
    (last.called /\ ~last.existed /\ last.pred.model_patch \in {"", PatchNone})
    => /\ Count(last.ops, "build_container") = 0
       /\ last.report # <<>>
            => /\ ~last.report[last.pred.instance_id]["patch_exists"]
               /\ ~last.report[last.pred.instance_id]["resolved"]

\* C13: in a call where the strict command (git apply) ran and returned, the
\* fuzzy command (patch --fuzz) runs exactly when the strict exit code is not
\* zero, and after it; and, no operation raising unexpectedly, the test command
\* is run exactly when the strict or the fuzzy exit code is zero.
C13_StrictThenFuzzyThenTests ==
    (last.called /\ ~last.existed /\ Count(last.ops, "exec git apply") = 1
        /\ last.env.raises # "exec git apply")
    => /\ Count(last.ops, "exec patch --fuzz") = 1 <=> last.env.strict_exit # 0
       /\ Count(last.ops, "exec patch --fuzz") = 1
            => Index(last.ops, "exec git apply") < Index(last.ops, "exec patch --fuzz")
       /\ last.env.raises = "none"
            => (Count(last.ops, "exec_run_with_timeout") = 1
                  <=> (last.env.strict_exit = 0 \/ last.env.fuzzy_exit = 0))

\* C14: when the strict and the fuzzy command have both exited non-zero, the
\* error raised for the Job carries the output of the strict command and the
\* output of the fuzzy command.
C14_ErrorCarriesBothOutputs ==
    (last.called /\ ~last.existed /\ last.exc = "EvaluationError"
        /\ Count(last.ops, "exec git apply") = 1 /\ last.env.strict_exit # 0
        /\ Count(last.ops, "exec patch --fuzz") = 1 /\ last.env.fuzzy_exit # 0)
    => /\ InSeq("output of git apply", last.msg)
       /\ InSeq("output of patch --fuzz", last.msg)

\* C15: in a call whose test command ran into the timeout, the output captured
\* is written to test_output.txt and the timeout marker after it, the Job
\* fails, nothing is graded, no report.json is written, and the container is
\* cleaned up once.
C15_TimeoutKeepsPartialOutput ==
    (last.called /\ ~last.existed /\ last.env.timed_out
        /\ Count(last.ops, "exec_run_with_timeout") = 1)
    => /\ Count(last.ops, "write test_output.txt") = 1
       /\ Count(last.ops, "write timeout marker") = 1
       /\ last.exc # "none"
       /\ Count(last.ops, "grade") = 0
       /\ last.path \notin DOMAIN reports
       /\ Count(last.ops, "cleanup_container") = 1

\* ------------------------------------------------------- the scheduler
\* a Job of an invocation: <<model_name_or_path, instance_id>>
Jobs == {"gold", "empty", "model"} \X Instances

\* load_swebench_dataset: the instances in dataset order
Dataset == [i \in 1..NumInstances |-> i]

get_gold_predictions ==
    [i \in Instances |->
        [instance_id |-> i, model_name_or_path |-> "gold", model_patch |-> "diff"]]

get_empty_predictions ==
    [i \in Instances |->
        [instance_id |-> i, model_name_or_path |-> "empty", model_patch |-> ""]]

\* the predictions file given to run_evaluation: one prediction per instance
FilePredictions ==
    [i \in Instances |->
        [instance_id |-> i, model_name_or_path |-> "model", model_patch |-> "diff"]]

JobOf(pred) == <<pred.model_name_or_path, pred.instance_id>>

\* get_dataset_from_preds with no instance_ids filter and exclude_completed:
\* the dataset without the instances whose report.json exists (the evaluation
\* harness also drops the instances without a prediction)
get_dataset_from_preds(h, dataset, predictions, run_id, disk) ==
    LET completed_ids ==
            {i \in Instances : /\ InSeq(i, dataset)
                               /\ i \in DOMAIN predictions
                               /\ ReportExists(disk, ReportPath(h, run_id, predictions[i]))}
        NotCompleted(i) == i \notin completed_ids
        HasPrediction(i) == i \in DOMAIN predictions
        kept == IF completed_ids # {} THEN SelectSeq(dataset, NotCompleted) ELSE dataset
    IN  IF h = "validation" THEN kept ELSE SelectSeq(kept, HasPrediction)

\* run_instance_pair giving the cache policy and the push flag to both calls
run_instance_pair_flags_to_both(gold_pred, empty_pred, rm_image, push_image) ==
    << [pred |-> gold_pred, rm_image |-> rm_image, push_image |-> push_image],
       [pred |-> empty_pred, rm_image |-> rm_image, push_image |-> push_image] >>

\* run_instance_pair: the calls of run_instance it makes, in order
run_instance_pair(gold_pred, empty_pred, rm_image, push_image) ==
    << [pred |-> gold_pred, rm_image |-> FALSE, push_image |-> FALSE],
       [pred |-> empty_pred, rm_image |-> rm_image, push_image |-> push_image] >>

SeqLenMin(a, b) == IF Len(a) <= Len(b) THEN Len(a) ELSE Len(b)

\* the futures with every pair given the first instance of empty_dataset
SubmittedSameEmpty(h, dataset, empty_dataset, rm_image, push_image) ==
    IF h = "validation"
    THEN [k \in 1..SeqLenMin(dataset, empty_dataset) |->
            run_instance_pair(get_gold_predictions[dataset[k]],
                              get_empty_predictions[empty_dataset[1]],
                              rm_image, push_image)]
    ELSE [k \in 1..Len(dataset) |->
            << [pred |-> FilePredictions[dataset[1]], rm_image |-> rm_image,
                push_image |-> FALSE] >>]

\* the futures run_instances submits: in the validation harness one
\* run_instance_pair per element of zip(gold_test_specs, empty_test_specs),
\* in the evaluation harness one run_instance per instance
Submitted(h, dataset, empty_dataset, rm_image, push_image) ==
    IF h = "validation"
    THEN [k \in 1..SeqLenMin(dataset, empty_dataset) |->
            run_instance_pair(get_gold_predictions[dataset[k]],
                              get_empty_predictions[empty_dataset[k]],
                              rm_image, push_image)]
    ELSE [k \in 1..Len(dataset) |->
            << [pred |-> FilePredictions[dataset[k]], rm_image |-> rm_image,
                push_image |-> FALSE] >>]

NoPlan == [todo |-> <<>>, kind |-> "", report |-> <<>>, removes |-> FALSE]

\* the answers of the outside world drawn in the scheduler's specification, one
\* for each way a Job can look from outside: it succeeds, its image build
\* fails, its container does not start, its patch does not apply, its test
\* run times out
SchedEnvs ==
    {Calm, [Calm EXCEPT !.build = "BuildImageError"],
     [Calm EXCEPT !.raises = "container.start"],
     [Calm EXCEPT !.strict_exit = 1, !.fuzzy_exit = 1],
     [Calm EXCEPT !.timed_out = TRUE]}

\* the cache policy and push flag drawn in the scheduler's specification: the
\* command line's defaults (should_remove gives True for an instance image
\* under --cache_level env --clean True; --push_image True)
SchedFlags == {[rm_image |-> TRUE, push_image |-> TRUE]}

\* the operations of a Job that other Jobs or the scheduler can observe
VisibleOps ==
    {"build_container", "container.start", "open report.json", "write report.json",
     "cleanup_container"}

\* what a call of run_instance leaves to observe: its operations that took
\* effect (an operation that raised did not) and that are visible
Effects(r) ==
    LET failed_at == IF r.exc = "none" THEN 0
                     ELSE SeqMin({i \in 1..Len(r.ops) :
                                    r.ops[i] \in {"logger.info", "logger.error"}}) - 1
        tagged == [i \in 1..Len(r.ops) |-> [op |-> r.ops[i], ok |-> i # failed_at]]
        Visible(x) == x.op \in VisibleOps /\ x.ok
        kept == SelectSeq(tagged, Visible)
    IN  [i \in 1..Len(kept) |-> kept[i].op]

Returned == {"skipped", "ok", "failed"}
Executed == {"ok", "failed", "raised"}

TaskJob(t, i) == JobOf(tasks[t][i].pred)
TaskStarted(t) == jstat[TaskJob(t, 1)] # "idle"
TaskFinished(t) ==
    \/ \E i \in 1..Len(tasks[t]) : jstat[TaskJob(t, i)] = "raised"
    \/ jstat[TaskJob(t, Len(tasks[t]))] \in Returned
TaskRaised(t) == \E i \in 1..Len(tasks[t]) : jstat[TaskJob(t, i)] = "raised"
TaskRunning(t) == TaskStarted(t) /\ ~TaskFinished(t)

\* a pool that starts a thread for every future
WorkerFreeUnbounded == TRUE

\* ThreadPoolExecutor(max_workers=max_workers): a queued future is taken when
\* fewer than max_workers futures are running
WorkerFree ==
    Cardinality({t \in 1..Len(tasks) : TaskRunning(t)}) < max_workers

\* the second call of a pair made without waiting for the first to end
PreviousReturnedNoWait(t, i) == jstat[TaskJob(t, i - 1)] # "idle"

\* the second call of a pair made only when the first returned a report
PreviousReturnedOnlyOk(t, i) == jstat[TaskJob(t, i - 1)] \in {"skipped", "ok"}

\* run_instance_pair calls run_instance for the empty prediction when the call
\* for the gold prediction has returned
PreviousReturned(t, i) == jstat[TaskJob(t, i - 1)] \in Returned

\* the as_completed loop with no except clause around future.result()
CollectOutcomeUncaught(h, raised) == IF raised THEN "abort" ELSE "continue"

\* the as_completed loop: future.result() inside try, every except clause
\* ends in continue
CollectOutcome(h, raised) == "continue"

\* EvaluationError.__str__: formatting the exception calls logger.info on the
\* logger the exception was built with, the Job's
EvaluationErrorStr == <<"logger.info">>

\* what the as_completed loop's except clauses call on the logger of a Job
\* that raised: run_evaluation prints the EvaluationError, which formats it;
\* run_validation prints the traceback only
CollectLogs(h, raised) ==
    IF h = "evaluation" /\ raised THEN EvaluationErrorStr ELSE <<>>

\* close_logger(logger) has been called: the finally block of the Job has run
LoggerClosed(j) == jstat[j] \in Executed

\* docker_utils.cleanup_container(client, container, logger): stops and removes
\* the container it is given (nothing to do for None), never raising when a
\* logger is passed
cleanup_container(c) == "none"

\* test_spec.instance_image_key and test_spec.env_image_key of an instance
InstanceImageKey(i) == <<"sweb.eval", i, "latest">>
EnvImageKey(i) == <<"sweb.env", i, "latest">>

\* an identifier no instance of the dataset has
AbsentId == NumInstances + 1

\* a run identifier that is not empty and not 8 characters long, and the one
\* uuid.uuid1() gives
ShortId == "bad"
GeneratedId == "uuid1"
RunIdLen(id) == IF id = "" THEN 0 ELSE IF id = ShortId THEN 3 ELSE 8

\* the command lines drawn: --run_id / --session_id, --instance_ids ({} when
\* not given), and whether the predictions file has a prediction for an
\* identifier that is not in the dataset (the validation harness makes its
\* predictions from the dataset, and checks of its run identifier only that it
\* is not empty: every other identifier behaves as RunId does)
Args(h) ==
    [run_id : IF h = "validation" THEN {RunId, ""} ELSE {RunId, "", ShortId},
     instance_ids : {{}, {1}, {1, AbsentId}},
     extra_prediction : IF h = "validation" THEN {FALSE} ELSE BOOLEAN]
DefaultArgs == [run_id |-> RunId, instance_ids |-> {}, extra_prediction |-> FALSE]

\* the keys of the predictions dict main passes to get_dataset_from_preds
PredictionIds(h, args) ==
    IF args.extra_prediction THEN Instances \cup {AbsentId} ELSE Instances

\* main with the check of --instance_ids left out
ConfigErrorNoIdCheck(h, args) ==
    IF h = "validation" /\ ~(RunIdLen(args.run_id) > 0) THEN "AssertionError"
    ELSE IF h = "evaluation" /\ args.run_id # "" /\ RunIdLen(args.run_id) # 8
    THEN "AssertionError"
    ELSE IF PredictionIds(h, args) \ Instances # {} THEN "ValueError"
    ELSE "none"

\* main up to the end of its first get_dataset_from_preds: the exception that
\* ends the invocation there, "none" when there is none
ConfigError(h, args) ==
    IF h = "validation" /\ ~(RunIdLen(args.run_id) > 0) THEN "AssertionError"
    ELSE IF h = "evaluation" /\ args.run_id # "" /\ RunIdLen(args.run_id) # 8
    THEN "AssertionError"
    ELSE IF args.instance_ids # {} /\ args.instance_ids \ Instances # {}
    THEN "ValueError"
    ELSE IF PredictionIds(h, args) \ Instances # {} THEN "ValueError"
    ELSE "none"

\* the run identifier main goes on with
SessionId(h, args) ==
    IF h = "evaluation" /\ args.run_id = "" THEN GeneratedId ELSE args.run_id

\* get_dataset_from_preds: "filter dataset to just the instance IDs"
FilterIds(dataset, instance_ids) ==
    LET Wanted(i) == i \in instance_ids
    IN  IF instance_ids # {} THEN SelectSeq(dataset, Wanted) ELSE dataset

\* docker_build.build_env_images(client, dataset, ...): the environment image
\* of every instance of the dataset it is given exists afterwards
build_env_images(images, dataset) ==
    images \cup {EnvImageKey(dataset[k]) : k \in 1..Len(dataset)}

\* docker_build.build_container: the instance image exists afterwards
build_container(images, i) == images \cup {InstanceImageKey(i)}

\* docker_utils.remove_image(client, image_id, logger)
remove_image(images, image_id) == images \ {image_id}

\* a finally block that removes the environment image with the instance image
TeardownImagesWithEnv(images, i, removes) ==
    IF removes
    THEN remove_image(remove_image(images, InstanceImageKey(i)), EnvImageKey(i))
    ELSE images

\* the images after the finally block of the Job of instance i:
\* remove_image(client, test_spec.instance_image_key, logger) under rm_image
TeardownImages(images, i, removes) ==
    IF removes THEN remove_image(images, InstanceImageKey(i)) ELSE images

\* docker_utils.clean_images(client, prior_images, cache_level, clean) under
\* --cache_level env: instance images go, unless clean is off and the image
\* existed before the run; environment and base images stay
clean_images(images, prior_images, clean) ==
    {k \in images : ~(k[1] = "sweb.eval" /\ (clean \/ k \notin prior_images))}

\* the default of --clean: True in run_validation, False in run_evaluation
CleanDefault(h) == h = "validation"

NoRun == [args |-> DefaultArgs, run_id |-> RunId, existing_images |-> {},
          env_built |-> {}, images |-> {}, total |-> 0, logged_closed |-> {}]

InitSched ==
    /\ harness \in Harnesses
    /\ reports = <<>>
    /\ grade = GradeIdle
    /\ last = NoCall
    /\ rep = RepIdle
    /\ push = PushIdle
    /\ mainpc = "idle"
    /\ max_workers = 1
    /\ reports0 = {}
    /\ tasks = <<>>
    /\ plan = [j \in Jobs |-> NoPlan]
    /\ containers = [j \in Jobs |-> "none"]
    /\ jstat = [j \in Jobs |-> "idle"]
    /\ collected = {}
    /\ pbar = 0
    /\ run = NoRun

\* main up to the submission of the futures: the checks of the arguments, the
\* two filtered datasets, the environment images, the cache policy, the zip,
\* the pool
MainStart ==
    /\ mainpc \in {"idle", "done", "aborted", "stopped"}
    /\ \E k \in 1..MaxWorkers, f \in SchedFlags, args \in Args(harness) :
        LET gold == IF harness = "validation" THEN get_gold_predictions
                    ELSE FilePredictions
            wanted == FilterIds(Dataset, args.instance_ids)
            dataset == get_dataset_from_preds(harness, wanted, gold, RunId, reports)
            empty_dataset == get_dataset_from_preds(harness, wanted,
                                get_empty_predictions, RunId, reports)
        IN  /\ max_workers' = k
            /\ IF ConfigError(harness, args) # "none"
               THEN /\ mainpc' = "stopped"
                    /\ tasks' = <<>>
                    /\ run' = [run EXCEPT !.args = args,
                                          !.run_id = SessionId(harness, args),
                                          !.env_built = {},
                                          !.total = 0,
                                          !.logged_closed = {}]
               ELSE /\ mainpc' = "pool"
                    /\ tasks' = Submitted(harness, dataset, empty_dataset,
                                           f.rm_image, f.push_image)
                    /\ run' = [args |-> args,
                               run_id |-> SessionId(harness, args),
                               existing_images |-> run.images,
                               env_built |-> {dataset[n] : n \in 1..Len(dataset)},
                               images |-> build_env_images(run.images, dataset),
                               total |-> Len(dataset),
                               logged_closed |-> {}]
    /\ reports0' = DOMAIN reports
    /\ plan' = [j \in Jobs |-> NoPlan]
    /\ containers' = [j \in Jobs |-> "none"]
    /\ jstat' = [j \in Jobs |-> "idle"]
    /\ collected' = {}
    /\ pbar' = 0
    /\ UNCHANGED <<rep, push, harness, reports, grade, last>>

\* a worker calls run_instance for the i-th Job of task t: lines up to the
\* idempotency check and setup_logger
BeginJob(t, i) ==
    /\ mainpc = "pool"
    /\ jstat[TaskJob(t, i)] = "idle"
    /\ IF i = 1
       THEN WorkerFree /\ \A u \in 1..(t - 1) : TaskStarted(u)
       ELSE PreviousReturned(t, i)
    /\ \E env \in SchedEnvs :
        \E r \in {run_instance(harness, RunId, tasks[t][i].pred, tasks[t][i].rm_image,
                               tasks[t][i].push_image, env, reports)} :
        \E todo \in {Effects(r)} :
        LET j == TaskJob(t, i)
        IN  IF todo = <<>>
            THEN /\ jstat' = [jstat EXCEPT ![j] = "skipped"]
                 /\ UNCHANGED plan
            ELSE /\ jstat' = [jstat EXCEPT ![j] = "active"]
                 /\ plan' = [plan EXCEPT ![j] =
                                [todo |-> todo, kind |-> r.kind, report |-> r.report,
                                 removes |-> InSeq("remove_image", r.ops)]]
    /\ UNCHANGED <<rep, push, harness, reports, grade, last, mainpc, max_workers, reports0,
                   tasks, containers, collected, pbar, run>>

\* the Job's next visible operation; the last one, cleanup_container, takes
\* the rest of the finally block and the return or raise with it
JobStep(j) ==
    /\ mainpc = "pool"
    /\ jstat[j] = "active"
    /\ LET op == Head(plan[j].todo)
           rest == Tail(plan[j].todo)
           path == ReportPath(harness, RunId,
                      [instance_id |-> j[2], model_name_or_path |-> j[1]])
       IN  /\ containers' =
                 IF op = "build_container" THEN [containers EXCEPT ![j] = "created"]
                 ELSE IF op = "container.start" THEN [containers EXCEPT ![j] = "running"]
                 ELSE IF op = "cleanup_container"
                 THEN [containers EXCEPT ![j] = cleanup_container(containers[j])]
                 ELSE containers
           /\ reports' =
                 IF op = "open report.json"
                 THEN [x \in DOMAIN reports \cup {path} |->
                          IF x = path THEN PartialText ELSE reports[x]]
                 ELSE IF op = "write report.json"
                 THEN [x \in DOMAIN reports \cup {path} |->
                          IF x = path THEN json_dumps(plan[j].report) ELSE reports[x]]
                 ELSE reports
           /\ run' =
                 IF op = "build_container"
                 THEN [run EXCEPT !.images = build_container(run.images, j[2])]
                 ELSE IF op = "cleanup_container"
                 THEN [run EXCEPT !.images =
                          TeardownImages(run.images, j[2], plan[j].removes)]
                 ELSE run
           /\ IF rest = <<>>
              THEN /\ plan' = [plan EXCEPT ![j] = NoPlan]
                   /\ jstat' = [jstat EXCEPT ![j] =
                                  IF plan[j].kind = "tuple" THEN "ok"
                                  ELSE IF plan[j].kind = "None" THEN "failed"
                                  ELSE "raised"]
              ELSE /\ plan' = [plan EXCEPT ![j].todo = rest]
                   /\ UNCHANGED jstat
    /\ UNCHANGED <<rep, push, harness, grade, last, mainpc, max_workers, reports0, tasks,
                   collected, pbar>>

\* one round of the as_completed loop: pbar.update(1), future.result()
Collect(t) ==
    /\ mainpc = "pool"
    /\ t \notin collected
    /\ TaskFinished(t)
    /\ pbar' = pbar + 1
    /\ collected' = collected \cup {t}
    /\ mainpc' = IF CollectOutcome(harness, TaskRaised(t)) = "abort"
                 THEN "aborted" ELSE mainpc
    /\ run' = [run EXCEPT !.logged_closed =
                  @ \cup {j \in Jobs :
                            /\ \E i \in 1..Len(tasks[t]) : j = TaskJob(t, i)
                            /\ jstat[j] = "raised"
                            /\ LoggerClosed(j)
                            /\ CollectLogs(harness, TaskRaised(t)) # <<>>}]
    /\ UNCHANGED <<rep, push, harness, reports, grade, last, max_workers, reports0, tasks,
                   plan, containers, jstat>>

\* the loop is over, the executor has shut down: "All instances run."
PoolExit ==
    /\ mainpc = "pool"
    /\ collected = 1..Len(tasks)
    /\ mainpc' = "clean"
    /\ UNCHANGED <<rep, push, harness, reports, grade, last, max_workers, reports0, tasks,
                   plan, containers, jstat, collected, pbar, run>>

\* main after run_instances: clean_images(client, existing_images, cache_level,
\* clean)
CleanImages ==
    /\ mainpc = "clean"
    /\ mainpc' = "done"
    /\ run' = [run EXCEPT !.images =
                  clean_images(run.images, run.existing_images, CleanDefault(harness))]
    /\ UNCHANGED <<rep, push, harness, reports, grade, last, max_workers, reports0, tasks,
                   plan, containers, jstat, collected, pbar>>

Next ==
    \/ MainStart
    \/ CleanImages
    \/ \E t \in 1..Len(tasks) : \E i \in 1..Len(tasks[t]) : BeginJob(t, i)
    \/ \E j \in Jobs : JobStep(j)
    \/ \E t \in 1..Len(tasks) : Collect(t)
    \/ PoolExit

Spec == InitSched /\ [][Next]_vars

Running == {j \in Jobs : containers[j] = "running"}

\* the Jobs of the invocation and the report path of each
InvocationJobs ==
    IF harness = "validation" THEN {"gold", "empty"} \X Instances
    ELSE {"model"} \X Instances
JobPath(j) ==
    ReportPath(harness, RunId, [instance_id |-> j[2], model_name_or_path |-> j[1]])

\* C3: in every state of a run with max_workers = k, at most k containers
\* have been started and not yet cleaned up.
C3_AtMostMaxWorkersContainers == Cardinality(Running) <= max_workers

\* C3 witness: with one worker, a container runs while another future waits
\* in the queue
C3_Witness ==
    /\ max_workers = 1
    /\ Cardinality(Running) = 1
    /\ \E t \in 1..Len(tasks) : ~TaskStarted(t)

\* C4: a Job that fails never aborts the pool: the scheduler never ends by an
\* exception, and when it has returned every Job of every submitted future
\* has been run to its end.
C4_FailureDoesNotAbortPool ==
    /\ mainpc # "aborted"
    /\ mainpc = "done" =>
          \A t \in 1..Len(tasks) :
             /\ TaskFinished(t)
             /\ TaskRaised(t) \/ \A i \in 1..Len(tasks[t]) :
                                    jstat[TaskJob(t, i)] \in Returned \cup Executed
             /\ \A i \in 1..Len(tasks[t]) : containers[TaskJob(t, i)] = "none"

\* C4 witness: the scheduler has returned, one Job failed and a Job of another
\* future succeeded
C4_Witness ==
    /\ mainpc = "done"
    /\ \E t, u \in 1..Len(tasks) :
          /\ t # u
          /\ \E i \in 1..Len(tasks[t]) : jstat[TaskJob(t, i)] \in {"failed", "raised"}
          /\ \E i \in 1..Len(tasks[u]) : jstat[TaskJob(u, i)] = "ok"

\* C5: in paired mode, when the empty Job of a pair has performed its first
\* operation the gold Job of that pair has ended and its container is cleaned
\* up.
C5_GoldEndsBeforeEmptyStarts ==
    harness = "validation" =>
        \A t \in 1..Len(tasks) :
            jstat[TaskJob(t, 2)] # "idle"
            => /\ jstat[TaskJob(t, 1)] \in Returned
               /\ plan[TaskJob(t, 1)] = NoPlan
               /\ containers[TaskJob(t, 1)] = "none"

\* C5 witness: the empty Job of one pair runs its container after the gold
\* Job of that pair ran and ended, while the gold Job of another pair runs
C5_Witness ==
    /\ harness = "validation"
    /\ \E t, u \in 1..Len(tasks) :
          /\ t # u
          /\ containers[TaskJob(t, 2)] = "running"
          /\ jstat[TaskJob(t, 1)] \in {"ok", "failed"}
          /\ containers[TaskJob(u, 1)] = "running"

\* C6: each pair submitted to the pool is the gold Job and the empty Job of
\* the same instance, also in a resumed invocation.
C6_PairsShareInstance ==
    harness = "validation" =>
        \A t \in 1..Len(tasks) :
            tasks[t][1].pred.instance_id = tasks[t][2].pred.instance_id

\* C8: when an invocation has ended, every Job that had no report.json when it
\* began has been executed by it, and no Job whose report.json existed has.
C8_MissingOutcomesAreRetried ==
    (harness = "validation" /\ mainpc = "done") =>
        \A j \in InvocationJobs :
            /\ JobPath(j) \notin reports0 => jstat[j] \in Executed
            /\ JobPath(j) \in reports0 => jstat[j] \notin Executed \cup {"active"}

\* C21: report.json is written atomically: in no state does a reader that
\* finds a Job's report.json (an existence check followed by a read, by a
\* concurrent or a later invocation) get anything but a whole report.
C21_NoPartialOutcomeObserved ==
    \A j \in InvocationJobs :
        ReadOutcome(reports, JobPath(j)).found
        => /\ ReadOutcome(reports, JobPath(j)).raised = "none"
           /\ j[2] \in DOMAIN ReadOutcome(reports, JobPath(j)).report

\* the calls of run_instance the submitted futures will make: <<future, call>>
Slots == {x \in (1..Len(tasks)) \X (1..2) : x[2] <= Len(tasks[x[1]])}
SlotPath(x) == ReportPath(harness, RunId, tasks[x[1]][x[2]].pred)

\* C22: within one invocation no two calls of run_instance, of the same or of
\* different futures, have the same report.json path: each (submitter,
\* instance, run) key is written by one Job only.
C22_OneWriterPerKey ==
    \A a, b \in Slots : a # b => SlotPath(a) # SlotPath(b)

\* C22 witness: with two workers, one Job is in the middle of writing its
\* report.json while a Job of another future runs its container
C22_Witness ==
    /\ max_workers = 2
    /\ \E a, b \in Slots :
          /\ a[1] # b[1]
          /\ SlotPath(a) \in DOMAIN reports /\ reports[SlotPath(a)] = PartialText
          /\ containers[TaskJob(b[1], b[2])] = "running"

\* C23: a report.json that holds a whole report is never changed and never
\* deleted by any later step of any Job or invocation with the same run id.
C23_OutcomeNeverRewritten ==
    [][\A p \in DOMAIN reports :
          reports[p] # PartialText => (p \in DOMAIN reports' /\ reports'[p] = reports[p])]_vars

\* C23 witness: a later invocation has written the report.json of a Job while
\* a report.json written before that invocation began is still on disk
C23_Witness ==
    /\ \E p \in reports0 : p \in DOMAIN reports /\ reports[p] # PartialText
    /\ \E q \in DOMAIN reports \ reports0 : reports[q] # PartialText

\* C25: while the pool runs, a step removes no image but the instance image of
\* the Job whose teardown the step is (never an environment image, never
\* another Job's image), and clean_images has begun only when every Job of
\* every future has ended and left no container.
C25_TeardownRemovesOwnImageOnly ==
    /\ [](mainpc \in {"clean", "done"} =>
            /\ \A t \in 1..Len(tasks) : TaskFinished(t)
            /\ \A j \in Jobs : jstat[j] # "active" /\ containers[j] = "none")
    /\ [][mainpc = "pool" =>
            \A k \in run.images \ run'.images :
                \E j \in Jobs : /\ k = InstanceImageKey(j[2])
                                /\ jstat[j] = "active" /\ jstat'[j] # "active"]_vars

\* C25 witness: the pool still runs, a Job has ended and its teardown removed
\* its instance image, the environment image of its instance and the instance
\* image of another Job are still there
C25_Witness ==
    /\ mainpc = "pool"
    /\ \E j \in Jobs :
          /\ jstat[j] \in Executed
          /\ InstanceImageKey(j[2]) \notin run.images
          /\ EnvImageKey(j[2]) \in run.images
          /\ \E i \in Instances \ {j[2]} : InstanceImageKey(i) \in run.images

\* C26: a Job has a container only if the dataset given to build_env_images
\* in this invocation contains the Job's instance.
C26_EnvBuiltBeforeInstanceBuild ==
    \A j \in Jobs : containers[j] # "none" => j[2] \in run.env_built

\* C31: the progress counter counts the futures the as_completed loop has
\* handled, each once, whether its Jobs succeeded or failed, and when
\* run_instances has returned it equals the total given to tqdm.
C31_ProgressCountsEveryJobOnce ==
    /\ pbar = Cardinality(collected)
    /\ \A t \in collected : TaskFinished(t)
    /\ mainpc \in {"clean", "done"} =>
          /\ collected = 1..Len(tasks)
          /\ pbar = run.total

\* the steps of an invocation after the futures are submitted
Progress ==
    \/ CleanImages
    \/ PoolExit
    \/ \E t \in 1..Len(tasks) : Collect(t)
    \/ \E j \in Jobs : JobStep(j)
    \/ \E t \in 1..Len(tasks) : \E i \in 1..Len(tasks[t]) : BeginJob(t, i)

\* the pool's threads and the main thread run whenever they can. No more is
\* asked here than that the invocation, while one of its threads has a step
\* to take, takes some step: no thread of it waits for ever on an operation
SpecLive == Spec /\ WF_vars(Progress)

\* C36: every operation of a Job returning in the end, an invocation that has
\* submitted its futures gets to the point where every future has finished,
\* in success or in failure, run_instances has returned and main has ended.
C36_SchedulerEventuallyFinishes ==
    (mainpc = "pool") ~>
        (/\ mainpc = "done"
         /\ \A t \in 1..Len(tasks) : TaskFinished(t) /\ t \in collected
         /\ \A j \in Jobs : jstat[j] # "active" /\ containers[j] = "none")

\* C36 witness: main has ended after two futures, a Job of one having failed
\* and a Job of the other having written its report, both counted
C36_Witness ==
    /\ mainpc = "done" /\ Len(tasks) = 2 /\ pbar = 2
    /\ \E t, u \in 1..Len(tasks) :
          /\ t # u
          /\ jstat[TaskJob(t, 1)] \in {"failed", "raised"}
          /\ jstat[TaskJob(u, 1)] = "ok"

\* C37: no Job's logger is called after that Job's teardown has closed it,
\* the scheduler's report of the Job's failure included.
C37_NoLogAfterClose == run.logged_closed = {}

\* the command lines with a configuration error: no run identifier, a run
\* identifier of the wrong length, an --instance_ids or a prediction naming an
\* identifier that is not in the dataset
BadIds(args) == args.instance_ids \ Instances # {} \/ args.extra_prediction
AnyConfigError(args) ==
    args.run_id = "" \/ args.run_id = ShortId \/ BadIds(args)

\* the same, an absent run identifier being an error in run_validation only
\* (run_evaluation generates one) and a wrong length in run_evaluation only
HarnessConfigError(h, args) ==
    \/ h = "validation" /\ args.run_id = ""
    \/ h = "evaluation" /\ args.run_id = ShortId
    \/ BadIds(args)

\* C28: an invocation whose command line has a configuration error (an
\* empty or malformed run identifier, an unknown instance id in the filter or
\* in the predictions) stops before it builds an image, writes a report or
\* submits a Job, and nothing else stops an invocation: no Job's error does.
C28_ConfigErrorAborts ==
    /\ [](/\ mainpc # "aborted"
          /\ mainpc = "stopped" => AnyConfigError(run.args)
          /\ (mainpc # "idle" /\ AnyConfigError(run.args)) =>
                /\ mainpc = "stopped"
                /\ tasks = <<>> /\ run.env_built = {}
                /\ \A j \in Jobs : jstat[j] = "idle" /\ containers[j] = "none")
    /\ [][AnyConfigError(run'.args) =>
            run'.images = run.images /\ reports' = reports]_vars

\* C28 as the code has it: the empty run identifier is an error in the
\* validation harness only (the evaluation harness goes on under a generated
\* identifier), the malformed one in the evaluation harness only; with that,
\* an invocation with a configuration error stops before it builds an image,
\* writes a report or submits a Job, and nothing else stops an invocation.
C28_HarnessConfigErrorAborts ==
    /\ [](/\ mainpc # "aborted"
          /\ mainpc = "stopped" => HarnessConfigError(harness, run.args)
          /\ (mainpc # "idle" /\ HarnessConfigError(harness, run.args)) =>
                /\ mainpc = "stopped"
                /\ tasks = <<>> /\ run.env_built = {}
                /\ \A j \in Jobs : jstat[j] = "idle" /\ containers[j] = "none"
          /\ (mainpc # "idle" /\ harness = "evaluation" /\ run.args.run_id = ""
                /\ ~BadIds(run.args)) =>
                mainpc # "stopped" /\ run.run_id = GeneratedId)
    /\ [][HarnessConfigError(harness, run'.args) =>
            run'.images = run.images /\ reports' = reports]_vars

\* C28 witness: an invocation has stopped on an unknown instance id of its
\* filter, after an earlier invocation built images and wrote reports
C28_Witness ==
    /\ mainpc = "stopped"
    /\ run.args.instance_ids \ Instances # {}
    /\ run.args.run_id = RunId
    /\ run.images # {}
    /\ reports # <<>>

\* ------------------------------------------------- the report aggregator
\* list(sorted(S)): the members of S in ascending order, key[x] giving the
\* place of x in that order
sorted(S, key) ==
    CHOOSE s \in [1..Cardinality(S) -> S] :
        \A a, b \in 1..Cardinality(S) : a < b => key[s[a]] < key[s[b]]

\* the order of the instance ids
IdKey == [i \in Instances |-> i]

\* the names of the container runtime: a container of a run for an instance,
\* the instance image of an instance (test_spec.instance_image_key), an
\* environment image
ContainerName(i, run_id) == <<"sweb.eval", i, run_id>>
ImageKey(i) == <<"sweb.eval", i, "latest">>
EnvImage == <<"sweb.env", 0, "latest">>
OtherRunId == "r0"

\* the order of the names as strings
NameKey ==
    [name \in {ContainerName(i, r) : i \in Instances, r \in {RunId, OtherRunId}}
              \cup {ImageKey(i) : i \in Instances} \cup {EnvImage} |->
        2 * name[2] + (IF name[3] = OtherRunId THEN 0 ELSE 1)]

\* client: None, or a docker client with the containers and images it lists
NoClient == [present |-> FALSE, containers |-> {}, images |-> {}]
Clients ==
    {NoClient}
    \cup [present : {TRUE},
          containers : SUBSET {ContainerName(1, RunId), ContainerName(1, OtherRunId)},
          images : SUBSET {ImageKey(1), EnvImage}]

\* prediction.get(KEY_PREDICTION, None)
PatchGet(prediction) ==
    IF prediction.model_patch = PatchMissing THEN PatchNone ELSE prediction.model_patch

\* RUN_EVALUATION_LOG_DIR / run_id / model / instance_id / LOG_REPORT
ReportFile(run_id, prediction) ==
    <<"run_evaluation", run_id, prediction.model_name_or_path, prediction.instance_id>>

\* the loop body of lines 48-76 with the continue of line 57 left out
BucketsNoContinue(predictions, instance_id, run_id, disk) ==
    IF instance_id \notin DOMAIN predictions THEN {"incomplete"}
    ELSE (IF PatchGet(predictions[instance_id]) \in {"", PatchNone}
          THEN {"empty_patch"} ELSE {})
         \cup (IF ReportExists(disk, ReportFile(run_id, predictions[instance_id]))
               THEN {"completed",
                     IF json_loads(disk[ReportFile(run_id, predictions[instance_id])])
                            [instance_id]["resolved"]
                     THEN "resolved" ELSE "unresolved"}
               ELSE {"error"})

\* the loop body of lines 48-76: the id sets the instance is added to
Buckets(predictions, instance_id, run_id, disk) ==
    IF instance_id \notin DOMAIN predictions THEN {"incomplete"}
    ELSE IF PatchGet(predictions[instance_id]) \in {"", PatchNone} THEN {"empty_patch"}
    ELSE IF ReportExists(disk, ReportFile(run_id, predictions[instance_id]))
    THEN {"completed",
          IF json_loads(disk[ReportFile(run_id, predictions[instance_id])])
                 [instance_id]["resolved"]
          THEN "resolved" ELSE "unresolved"}
    ELSE {"error"}

\* make_run_report(predictions, full_dataset, run_id, client): the report
\* dictionary it builds, and whether it was written (list(...)[0] of line 132
\* raises IndexError when there is no prediction)
make_run_report(predictions, full_dataset, run_id, client, disk) ==
    LET ids(b) == {i \in Instances : /\ InSeq(i, full_dataset)
                                     /\ b \in Buckets(predictions, i, run_id, disk)}
        unremoved_images ==
            IF client.present
            THEN {ImageKey(i) : i \in {x \in Instances : InSeq(x, full_dataset)}}
                 \cap client.images
            ELSE {}
        unstopped_containers ==
            IF client.present THEN {c \in client.containers : c[3] = run_id} ELSE {}
        report ==
            [total_instances |-> Len(full_dataset),
             submitted_instances |-> Cardinality(DOMAIN predictions),
             completed_instances |-> Cardinality(ids("completed")),
             resolved_instances |-> Cardinality(ids("resolved")),
             unresolved_instances |-> Cardinality(ids("unresolved")),
             empty_patch_instances |-> Cardinality(ids("empty_patch")),
             error_instances |-> Cardinality(ids("error")),
             completed_ids |-> sorted(ids("completed"), IdKey),
             incomplete_ids |-> sorted(ids("incomplete"), IdKey),
             empty_patch_ids |-> sorted(ids("empty_patch"), IdKey),
             submitted_ids |-> sorted(DOMAIN predictions, IdKey),
             resolved_ids |-> sorted(ids("resolved"), IdKey),
             unresolved_ids |-> sorted(ids("unresolved"), IdKey),
             error_ids |-> sorted(ids("error"), IdKey),
             schema_version |-> 2]
        extra ==
            [unstopped_instances |-> Cardinality(unstopped_containers),
             unstopped_containers |-> sorted(unstopped_containers, NameKey),
             unremoved_images |-> sorted(unremoved_images, NameKey)]
    IN  [report |-> IF ~client.present THEN report @@ extra ELSE report,
         raised |-> IF DOMAIN predictions = {} THEN "IndexError" ELSE "none",
         written |-> DOMAIN predictions # {}]

\* ----------------------------------------------------------- SpecReport
\* a prediction per instance, or none
PredictionChoices == [Instances -> {"absent"} \cup PatchValues]
\* the report.json of an instance's prediction: none, resolved or unresolved
FileChoices == [Instances -> {"none", "resolved", "unresolved"}]

PredictionsOf(c) ==
    [i \in {x \in Instances : c[x] # "absent"} |->
        [instance_id |-> i, model_name_or_path |-> "model", model_patch |-> c[i]]]

DiskOf(c, f) ==
    [path \in {ReportFile(RunId, PredictionsOf(c)[i]) :
                 i \in {x \in DOMAIN PredictionsOf(c) : f[x] # "none"}} |->
        json_dumps((path[4] :> [InitialRecord EXCEPT
                                   !["patch_exists"] = TRUE,
                                   !["patch_successfully_applied"] = TRUE,
                                   !["resolved"] = (f[path[4]] = "resolved")]))]

InitReport ==
    /\ harness = "evaluation"
    /\ grade = GradeIdle
    /\ last = NoCall
    /\ push = PushIdle
    /\ SchedIdle
    /\ \E c \in PredictionChoices, f \in FileChoices, client \in Clients :
          /\ reports = DiskOf(c, f)
          /\ rep = [called |-> FALSE, predictions |-> PredictionsOf(c),
                    full_dataset |-> Dataset, client |-> client]

\* make_run_report is applied to the drawn input
ReportCall ==
    /\ ~rep.called
    /\ rep' = [called |-> TRUE, predictions |-> rep.predictions,
               full_dataset |-> rep.full_dataset, client |-> rep.client,
               out |-> make_run_report(rep.predictions, rep.full_dataset, RunId,
                                       rep.client, reports)]
    /\ UNCHANGED <<harness, reports, grade, last, push>>
    /\ UNCHANGED schedVars

NextReport == ReportCall

SpecReport == InitReport /\ [][NextReport]_vars

\* the ids a list of the report holds
Listed(key) == {rep.out.report[key][n] : n \in 1..Len(rep.out.report[key])}

HasPrediction(i) == i \in DOMAIN rep.predictions
HasEmptyPatch(i) ==
    HasPrediction(i) /\ rep.predictions[i].model_patch \in {"", PatchNone, PatchMissing}
HasOutcome(i) ==
    HasPrediction(i) /\ ReportFile(RunId, rep.predictions[i]) \in DOMAIN reports
OutcomeResolved(i) ==
    json_loads(reports[ReportFile(RunId, rep.predictions[i])])[i]["resolved"]

\* C16: the report made puts every instance of the dataset in exactly one of
\* incomplete_ids (no prediction), empty_patch_ids (a prediction with an empty,
\* null or missing patch, with or without a report.json), resolved_ids and
\* unresolved_ids (a patch and a report.json, by its resolved flag) and
\* error_ids (a patch and no report.json).
C16_BucketsPartitionDataset ==
    rep.called
    => \A i \in Instances :
          /\ Cardinality({b \in {"incomplete_ids", "empty_patch_ids", "resolved_ids",
                                 "unresolved_ids", "error_ids"} : i \in Listed(b)}) = 1
          /\ i \in Listed("incomplete_ids") <=> ~HasPrediction(i)
          /\ i \in Listed("empty_patch_ids") <=> HasEmptyPatch(i)
          /\ i \in Listed("resolved_ids")
               <=> (HasPrediction(i) /\ ~HasEmptyPatch(i) /\ HasOutcome(i)
                    /\ OutcomeResolved(i))
          /\ i \in Listed("unresolved_ids")
               <=> (HasPrediction(i) /\ ~HasEmptyPatch(i) /\ HasOutcome(i)
                    /\ ~OutcomeResolved(i))
          /\ i \in Listed("error_ids")
               <=> (HasPrediction(i) /\ ~HasEmptyPatch(i) /\ ~HasOutcome(i))

\* C16 witness: a report made for an empty patch that has a report.json and,
\* next to it, an instance that is resolved or in error
C16_Witness ==
    /\ rep.called /\ rep.out.written
    /\ \E i \in Instances : HasEmptyPatch(i) /\ HasOutcome(i)
                             /\ i \in Listed("empty_patch_ids")
    /\ \E i \in Instances : i \in Listed("resolved_ids") \cup Listed("error_ids")

\* C17: when make_run_report is given a client, the report it makes lists the
\* containers whose name holds the run id and the instance images of the
\* dataset that the client still lists.
C17_LeakedResourcesListed ==
    (rep.called /\ rep.client.present)
    => /\ "unstopped_containers" \in DOMAIN rep.out.report
       /\ "unremoved_images" \in DOMAIN rep.out.report
       /\ Listed("unstopped_containers")
            = {c \in rep.client.containers : c[3] = RunId}
       /\ Listed("unremoved_images")
            = {ImageKey(i) : i \in Instances} \cap rep.client.images

\* ---------------------------------------------------- the bulk push loop
\* load_swebench_dataset(dataset_name, split)
PushDataset == [i \in 1..PushTargets |-> i]

SeqSet(s) == {s[i] : i \in 1..Len(s)}

\* check_local_image: client.images.get(image_name) finds the image or not
check_local_image(local, instance) == instance \in local

\* what the registry answers: the push of a broken target fails on every
\* attempt, that of another target on its first fate[t] attempts
PushFails(broken, fate, attempts, t) == t \in broken \/ attempts[t] < fate[t]

\* push_image removing the local image before it pushes
push_image_removes_first(local, fails, t) ==
    IF t \notin local THEN [raised |-> TRUE, local |-> local]
    ELSE IF fails THEN [raised |-> TRUE, local |-> local \ {t}]
    ELSE [raised |-> FALSE, local |-> local \ {t}]

\* push_image(instance, namespace, instance_image_tag): images.get raises when
\* the image is not there, an error line of the push raises, and only after a
\* push without error are the two local tags removed
push_image(local, fails, t) ==
    IF t \notin local THEN [raised |-> TRUE, local |-> local]
    ELSE IF fails THEN [raised |-> TRUE, local |-> local]
    ELSE [raised |-> FALSE, local |-> local \ {t}]

\* utils.run_threadpool(func, payloads, max_workers): every payload is run once;
\* those whose call returned, and those whose call raised (each list is given
\* here in payload order)
run_threadpool(payloads, raising) ==
    LET Returns(t) == t \notin raising
        Raises(t) == t \in raising
    IN  [successful |-> SelectSeq(payloads, Returns),
         failed |-> SelectSeq(payloads, Raises)]

\* line 118 giving up the targets that failed
NextBatchNone(batch, failed) == <<>>

\* line 118 taking the whole batch again
NextBatchAll(batch, failed) == batch

\* current_batch = [payload[0] for payload in failed]
NextBatch(batch, failed) == failed

\* the loop test giving up once no more than two targets remain
LoopContinuesIfMany(current_batch) == Len(current_batch) > 2

\* while current_batch:
LoopContinues(current_batch) == current_batch # <<>>

\* ------------------------------------------------------------- SpecPush
\* the local images are those of the first n instances; the last k of them
\* never push, the j before these fail once, twice, ... and then push
InitPush ==
    /\ harness = "evaluation"
    /\ reports = <<>>
    /\ grade = GradeIdle
    /\ last = NoCall
    /\ rep = RepIdle
    /\ SchedIdle
    /\ \E n \in 0..PushTargets, k \in 0..MaxBroken, j \in 0..MaxFlaky :
          /\ k + j <= n
          /\ push = [pc |-> "start",
                     local |-> 1..n,
                     local0 |-> 1..n,
                     broken |-> (n - k + 1)..n,
                     fate |-> [t \in 1..PushTargets |->
                                 IF t > n - k - j /\ t <= n - k THEN t - (n - k - j)
                                 ELSE 0],
                     attempts |-> [t \in 1..PushTargets |-> 0],
                     to_push |-> <<>>,
                     all_successful |-> <<>>,
                     current_batch |-> <<>>,
                     retry_count |-> 0,
                     rounds |-> <<>>]

\* main up to the loop: the local images are looked up; with none, main returns
PushMainStart ==
    /\ push.pc = "start"
    /\ LET IsLocal(instance) == check_local_image(push.local, instance)
           to_push == SelectSeq(PushDataset, IsLocal)
       IN  push' = [push EXCEPT
                      !.pc = IF to_push = <<>> THEN "returned" ELSE "loop",
                      !.to_push = to_push,
                      !.all_successful = <<>>,
                      !.current_batch = to_push,
                      !.retry_count = 0]
    /\ UNCHANGED <<harness, reports, grade, last, rep>>
    /\ UNCHANGED schedVars

\* one pass of the loop body: every target of the batch is pushed once, the
\* successes are added to all_successful, the failures are the next batch
PushRound ==
    /\ push.pc = "loop"
    /\ LoopContinues(push.current_batch)
    /\ push.retry_count < MaxRounds
    /\ LET batch == push.current_batch
           Pushed(t) ==
               push_image(push.local,
                          PushFails(push.broken, push.fate, push.attempts, t), t)
           Raises(t) == Pushed(t).raised
           result == run_threadpool(batch, {t \in SeqSet(batch) : Raises(t)})
           all_successful == push.all_successful \o result.successful
           current_batch == NextBatch(batch, result.failed)
       IN  push' = [push EXCEPT
                      !.retry_count = @ + 1,
                      !.attempts = [t \in 1..PushTargets |->
                                      IF t \in SeqSet(batch) THEN @[t] + 1 ELSE @[t]],
                      !.local = {t \in @ : t \in SeqSet(batch) => t \in Pushed(t).local},
                      !.all_successful = all_successful,
                      !.current_batch = current_batch,
                      !.rounds = Append(@, [attempted |-> batch,
                                            successful |-> result.successful,
                                            failed |-> result.failed,
                                            total_successful |-> Len(all_successful),
                                            remaining |-> Len(current_batch)])]
    /\ UNCHANGED <<harness, reports, grade, last, rep>>
    /\ UNCHANGED schedVars

\* the loop test fails: main returns
PushReturn ==
    /\ push.pc = "loop"
    /\ ~LoopContinues(push.current_batch)
    /\ push' = [push EXCEPT !.pc = "returned"]
    /\ UNCHANGED <<harness, reports, grade, last, rep>>
    /\ UNCHANGED schedVars

NextPush == PushMainStart \/ PushRound \/ PushReturn

SpecPush == InitPush /\ [][NextPush]_vars

\* between two rounds, or after the loop
PushBoundary == push.pc \in {"loop", "returned"}

\* C18: the first round attempts every locally present image and every later
\* round exactly the targets that failed in the round before; between rounds
\* all_successful holds no target twice, shares no target with the next batch,
\* and together with it makes up the initial to_push.
C18_RoundsPartitionToPush ==
    PushBoundary
    => /\ SeqSet(push.to_push) = push.local0
       /\ \A r \in 1..Len(push.rounds) :
             push.rounds[r].attempted
               = IF r = 1 THEN push.to_push ELSE push.rounds[r - 1].failed
       /\ Cardinality(SeqSet(push.all_successful)) = Len(push.all_successful)
       /\ SeqSet(push.all_successful) \cap SeqSet(push.current_batch) = {}
       /\ SeqSet(push.all_successful) \cup SeqSet(push.current_batch)
            = SeqSet(push.to_push)

\* C18 witness: three rounds, each attempting fewer targets than the one
\* before, with successes and failures both left
C18_Witness ==
    /\ PushBoundary /\ Len(push.rounds) >= 3
    /\ Len(push.rounds[3].attempted) < Len(push.rounds[2].attempted)
    /\ Len(push.rounds[2].attempted) < Len(push.rounds[1].attempted)
    /\ push.all_successful # <<>> /\ push.current_batch # <<>>

\* C19: a round is started only when the round before left failures and, that
\* round being a retry round, left fewer failures than it attempted: the loop
\* stops when the failed subset is empty or a retry round did not shrink it.
C19_StopsWhenEmptyOrNoShrinkage ==
    PushBoundary
    => \A r \in 2..Len(push.rounds) :
          /\ push.rounds[r - 1].failed # <<>>
          /\ r >= 3 => Len(push.rounds[r - 1].failed) < Len(push.rounds[r - 1].attempted)

\* ten local images, two that never push and eight that push at once
TenEightTwo ==
    /\ PushBoundary
    /\ Cardinality(push.local0) = 10
    /\ Cardinality(push.broken) = 2
    /\ Cardinality({t \in push.local0 \ push.broken : push.fate[t] = 0}) = 8

\* C20: with ten targets of which eight push at once and two never, every
\* round ends with 8 successes in total and 2 targets remaining, every round
\* after the first attempts those same 2, and the loop does not exit.
C20_TwoFailForever ==
    TenEightTwo
    => /\ push.pc # "returned"
       /\ LoopContinues(push.current_batch)
       /\ \A r \in 1..Len(push.rounds) :
             /\ push.rounds[r].total_successful = 8
             /\ push.rounds[r].remaining = 2
             /\ r >= 2 => /\ push.rounds[r].attempted = push.rounds[1].failed
                          /\ push.rounds[r].successful = <<>>

\* C20 witness: the third round of that batch has been run
C20_Witness ==
    /\ TenEightTwo /\ Len(push.rounds) >= 3
    /\ Len(push.all_successful) = 8 /\ Len(push.current_batch) = 2

\* C33: a local image is gone only when its push has worked: between rounds
\* the local images are the initial ones without those of all_successful,
\* every target that failed in a round so far was local when it was tried
\* again, and every target of the next batch still has its local image.
C33_FailedPushKeepsLocalImage ==
    PushBoundary
    => /\ push.local = push.local0 \ SeqSet(push.all_successful)
       /\ SeqSet(push.current_batch) \subseteq push.local
       /\ \A r \in 1..Len(push.rounds) :
             SeqSet(push.rounds[r].failed) \cap SeqSet(push.all_successful) # {}
             => \E q \in (r + 1)..Len(push.rounds) :
                   SeqSet(push.rounds[r].failed) \cap SeqSet(push.rounds[q].successful) # {}

\* C33 witness: a target that failed in the first round was pushed in the
\* second and its local image is gone, another failed twice and has its image
C33_Witness ==
    /\ PushBoundary /\ Len(push.rounds) = 2
    /\ \E t \in SeqSet(push.rounds[1].failed) :
          t \in SeqSet(push.rounds[2].successful) /\ t \notin push.local
    /\ \E t \in SeqSet(push.rounds[2].failed) : t \in push.local

\* main is a sequential program: while it has a step to take, it takes it
SpecPushLive == SpecPush /\ WF_vars(NextPush)

\* C32: when no target fails for ever (each push works after finitely many
\* failed attempts), main eventually returns, and it returns with an empty
\* current_batch and with all_successful holding every locally present image
\* exactly once.
C32_ConvergentPushTerminates ==
    (push.broken = {}) =>
        <>(/\ push.pc = "returned"
           /\ push.current_batch = <<>>
           /\ SeqSet(push.all_successful) = push.local0
           /\ Len(push.all_successful) = Cardinality(push.local0))

\* C32 witness: main has returned after three rounds, two targets having
\* failed in the first round and one of them again in the second
C32_Witness ==
    /\ push.pc = "returned" /\ push.broken = {}
    /\ Len(push.rounds) = 3
    /\ Len(push.rounds[1].failed) = 2 /\ Len(push.rounds[2].failed) = 1
    /\ push.current_batch = <<>>
    /\ SeqSet(push.all_successful) = push.local0

\* -------------------------------------------------------------- SpecRuns
\* run_instance is called directly under two run identifiers (run_id of the
\* validation harness, session_id of the evaluation harness)
RunIds == {RunId, OtherRunId}

InitRuns ==
    /\ harness \in Harnesses
    /\ reports = <<>>
    /\ grade = GradeIdle
    /\ last = [called |-> FALSE, written_by |-> <<>>]
    /\ rep = RepIdle
    /\ push = PushIdle
    /\ SchedIdle

\* one call of run_instance under run_id; written_by remembers, for every
\* report.json, the run identifier of the call that wrote it
RunCall ==
    \E run_id \in RunIds, pred \in JobPreds(harness), env \in SchedEnvs :
        LET r == run_instance(harness, run_id, pred, FALSE, FALSE, env, reports)
            path == ReportPath(harness, run_id, pred)
        IN  /\ reports' = r.disk
            /\ last' = [called |-> TRUE, run_id |-> run_id, pred |-> pred,
                        path |-> path, existed |-> path \in DOMAIN reports,
                        ops |-> r.ops, kind |-> r.kind, report |-> r.report,
                        written_by |->
                            IF path \notin DOMAIN reports /\ path \in DOMAIN r.disk
                            THEN DictSet(last.written_by, path, run_id)
                            ELSE last.written_by]
            /\ UNCHANGED <<rep, push, harness, grade>>
            /\ UNCHANGED schedVars

NextRuns == RunCall

SpecRuns == InitRuns /\ [][NextRuns]_vars

\* C24: a call of run_instance that finds a report.json, returns it and runs
\* nothing, finds one that was written under the call's own run identifier.
C24_OutcomeKeyedByRunId ==
    (last.called /\ last.existed)
    => /\ last.path \in DOMAIN last.written_by
       /\ last.written_by[last.path] = last.run_id
\* ------------------------------------------------------------- SpecPair
\* run_instance_pair called directly, again and again, for every instance,
\* cache policy, push flag and answer of the outside world
PairEnvs == SchedEnvs \cup {[Calm EXCEPT !.push_ok = FALSE]}

\* the arguments of the pair and the answers of the outside world to its two
\* calls are drawn once; the pair is then called, and called again on the
\* disk it left
PairInputs ==
    [instance_id : Instances, rm_image : BOOLEAN, push_image : BOOLEAN,
     genv : PairEnvs, eenv : PairEnvs]

InitPair ==
    /\ harness = "validation"
    /\ reports = <<>>
    /\ grade = GradeIdle
    /\ \E x \in PairInputs :
          last = [called |-> FALSE, at |-> "gold", input |-> x,
                  rm_image |-> x.rm_image, push_image |-> x.push_image,
                  gold_ops |-> <<>>, gold_kind |-> "not called",
                  gold_exc |-> "none",
                  empty_ops |-> <<>>, empty_kind |-> "not called",
                  empty_existed |-> FALSE]
    /\ rep = RepIdle
    /\ push = PushIdle
    /\ SchedIdle

\* the calls run_instance_pair makes for the drawn arguments
PairCalls ==
    run_instance_pair(get_gold_predictions[last.input.instance_id],
                      get_empty_predictions[last.input.instance_id],
                      last.input.rm_image, last.input.push_image)

\* the first call of the pair, for the gold prediction; when it raises, the
\* pair ends there
PairGold ==
    /\ last.at \in {"gold", "end"}
    /\ LET c == PairCalls[1]
           g == run_instance(harness, RunId, c.pred, c.rm_image, c.push_image,
                             last.input.genv, reports)
       IN  /\ reports' = g.disk
           /\ last' = [last EXCEPT
                         !.called = TRUE,
                         !.at = IF g.kind = "raised" THEN "end" ELSE "empty",
                         !.gold_ops = g.ops, !.gold_kind = g.kind,
                         !.gold_exc = g.exc,
                         !.empty_ops = <<>>, !.empty_kind = "not called",
                         !.empty_existed = FALSE]
    /\ UNCHANGED <<rep, push, harness, grade>>
    /\ UNCHANGED schedVars

\* the second call of the pair, for the empty prediction
PairEmpty ==
    /\ last.at = "empty"
    /\ LET c == PairCalls[2]
           e == run_instance(harness, RunId, c.pred, c.rm_image, c.push_image,
                             last.input.eenv, reports)
       IN  /\ reports' = e.disk
           /\ last' = [last EXCEPT
                         !.at = "end",
                         !.empty_ops = e.ops, !.empty_kind = e.kind,
                         !.empty_existed =
                            ReportExists(reports, ReportPath(harness, RunId, c.pred))]
    /\ UNCHANGED <<rep, push, harness, grade>>
    /\ UNCHANGED schedVars

NextPair == PairGold \/ PairEmpty

SpecPair == InitPair /\ [][NextPair]_vars

ImageOps == {"images.tag", "images.push", "remove_image"}

\* C30: in a pair the gold call never tags, pushes or removes the instance
\* image, whatever the cache policy and the push flag; the empty call does so
\* only in its teardown, after its cleanup_container and after everything its
\* body did, and it does so as the flags say.
C30_OnlyEmptyTeardownPushesOrRemoves ==
    last.called =>
        /\ \A op \in ImageOps : Count(last.gold_ops, op) = 0
        /\ \A n \in 1..Len(last.empty_ops) :
              last.empty_ops[n] \in ImageOps =>
                /\ Count(last.empty_ops, "cleanup_container") = 1
                /\ Index(last.empty_ops, "cleanup_container") < n
                /\ \A m \in 1..Len(last.empty_ops) :
                      Stage(last.empty_ops[m]) # 0 => m < n
        /\ Count(last.empty_ops, "images.push") > 0 => last.push_image
        /\ Count(last.empty_ops, "remove_image") > 0 => last.rm_image

\* C30 witness: with the image to be pushed and removed, the gold call ran
\* its Job and wrote its report, and the empty call pushed and removed the
\* image
C30_Witness ==
    /\ last.called /\ last.rm_image /\ last.push_image
    /\ Count(last.gold_ops, "cleanup_container") = 1
    /\ Count(last.gold_ops, "write report.json") = 1
    /\ Count(last.empty_ops, "images.push") = 1
    /\ Count(last.empty_ops, "remove_image") = 1
\* the gold call failed inside its try block: the image build failed, an
\* operation raised, both patch commands failed or the test run timed out
GoldFailedInBody ==
    /\ last.called
    /\ Count(last.gold_ops, "setup_logger") = 1
    /\ last.gold_exc # "none"

\* C35: when the gold call of a pair has failed inside its try block, the
\* pair goes on to the empty call; the pair has ended only when that call was
\* made, and the call runs its Job unless its report was on disk already.
C35_GoldFailureDoesNotStopEmpty ==
    GoldFailedInBody =>
        /\ last.gold_kind = "None"
        /\ last.at \in {"empty", "end"}
        /\ last.at = "end" =>
              /\ last.empty_kind # "not called"
              /\ ~last.empty_existed => Count(last.empty_ops, "build_container") = 1

\* C35 witness: the gold call timed out and the empty call ran its Job and
\* wrote a report
C35_Witness ==
    /\ GoldFailedInBody /\ last.at = "end"
    /\ last.input.genv.timed_out
    /\ Count(last.gold_ops, "write report.json") = 0
    /\ ~last.empty_existed
    /\ Count(last.empty_ops, "write report.json") = 1
====
